---- MODULE Spec2Model ----
(***************************************************************************)
(* Model of src/app/page.tsx: the App component of the analytics           *)
(* dashboard.  A user selects a CSV file, a FileReader delivers its text   *)
(* to a callback that tokenises it (parseCSV), cleans the rows and stores  *)
(* them in `data`; the four chart series and the KPIs (chartsData) are     *)
(* recomputed from `data` at every render.                                 *)
(*                                                                         *)
(* Representation.  A JavaScript string is a sequence of one-character     *)
(* strings (Chars("ab") = <<"a","b">>), so that split, trim, includes,     *)
(* toLowerCase, parseFloat and localeCompare are computed character by     *)
(* character.  A value that may be null/undefined is a sequence of length  *)
(* 0 (absent) or 1.  A JavaScript number is a record [kind, val, scale]:   *)
(* kind "num" stands for val / 10^scale, kind "nan" for NaN and kind       *)
(* "undefined" for a missing value.  Arithmetic on numbers is exact        *)
(* (binary floating-point rounding error is not modelled).                 *)
(***************************************************************************)
EXTENDS Integers, Sequences, FiniteSets, TLC

VARIABLES
    data,       \* useState: the cleaned rows shown by the dashboard
    loading,    \* useState: "Processando dados..." indicator
    fileName,   \* useState: name of the last selected file, or Null
    error,      \* useState: error message, or Null
    pending,    \* FileReaders whose onload/onerror has not fired yet
    charts,     \* useMemo: chartsData of the last render, or Null
    disk,       \* the files the user can select: name -> text
    pc,         \* position of the run
    input,      \* argument of the pure function under study
    output      \* its result

vars == <<data, loading, fileName, error, pending, charts, disk, pc, input, output>>

Null == <<>>
Some(x) == <<x>>

(***************************************************************************)
(* Strings                                                                 *)
(***************************************************************************)
Chars(s) == [i \in 1..Len(s) |-> SubSeq(s, i, i)]

Range(s) == {s[i] : i \in DOMAIN s}

\* The white space String.prototype.trim removes (of the characters modelled).
WhiteSpace == {" ", "\t", "\r", "\n"}

RECURSIVE TrimStart(_)
TrimStart(s) ==
    IF s # <<>> /\ Head(s) \in WhiteSpace THEN TrimStart(Tail(s)) ELSE s

RECURSIVE TrimEnd(_)
TrimEnd(s) ==
    IF s # <<>> /\ s[Len(s)] \in WhiteSpace
    THEN TrimEnd(SubSeq(s, 1, Len(s) - 1))
    ELSE s

Trim(s) == TrimEnd(TrimStart(s))

\* s.includes(m)
Includes(s, m) ==
    \E i \in 1..(Len(s) - Len(m) + 1) : SubSeq(s, i, i + Len(m) - 1) = m

\* the least element of a non-empty set of integers
Min(S) == CHOOSE x \in S : \A y \in S : x <= y

\* s.split(sep) for a non-empty separator string
RECURSIVE Split(_, _)
Split(s, sep) ==
    LET found == {i \in 1..(Len(s) - Len(sep) + 1) :
                     SubSeq(s, i, i + Len(sep) - 1) = sep}
    IN  IF found = {} THEN <<s>>
        ELSE LET i == Min(found)
             IN  <<SubSeq(s, 1, i - 1)>>
                 \o Split(SubSeq(s, i + Len(sep), Len(s)), sep)

\* text.split(/\r?\n/): a line ends at "\n", or at the "\r" right before it
RECURSIVE SplitLines(_)
SplitLines(text) ==
    LET found == {i \in 1..Len(text) : text[i] = "\n"}
    IN  IF found = {} THEN <<text>>
        ELSE LET n == Min(found)
                 start == IF n > 1 /\ text[n - 1] = "\r" THEN n - 1 ELSE n
             IN  <<SubSeq(text, 1, start - 1)>>
                 \o SplitLines(SubSeq(text, n + 1, Len(text)))

\* currentVal.replace(/^"|"$/g, '')
StripOuterQuotes(s) ==
    LET a == IF s # <<>> /\ Head(s) = "\"" THEN Tail(s) ELSE s
    IN  IF a # <<>> /\ a[Len(a)] = "\"" THEN SubSeq(a, 1, Len(a) - 1) ELSE a

(***************************************************************************)
(* parseCSV.  A row object is a function from the header names it was      *)
(* given to their values.                                                  *)
(***************************************************************************)
EmptyRow == [k \in {} |-> <<>>]

\* row[key] = value
SetField(row, key, value) ==
    [k \in DOMAIN row \cup {key} |-> IF k = key THEN value ELSE row[k]]

\* lines[0].split(',').map(h => h.trim())
Headers(lines) ==
    LET hs == Split(lines[1], <<",">>) IN [k \in DOMAIN hs |-> Trim(hs[k])]

\* the test of the branch that closes a column
IsSeparatorIgnoringQuotes(char, inQuotes) == char = ","

IsSeparator(char, inQuotes) == char = "," /\ ~inQuotes

\* if (colIndex < headers.length) row[headers[colIndex]] = currentVal...trim()
StoreColumn(st, headers) ==
    IF st.colIndex < Len(headers)
    THEN SetField(st.row, headers[st.colIndex + 1],
                  Trim(StripOuterQuotes(st.currentVal)))
    ELSE st.row

\* one iteration of the loop over the characters of a line
ScanChar(st, char, headers) ==
    IF char = "\""
    THEN [st EXCEPT !.inQuotes = ~st.inQuotes]
    ELSE IF IsSeparator(char, st.inQuotes)
    THEN [st EXCEPT !.row = StoreColumn(st, headers),
                    !.currentVal = <<>>,
                    !.colIndex = st.colIndex + 1]
    ELSE [st EXCEPT !.currentVal = Append(st.currentVal, char)]

\* the loop's variables before anything is read
LineStart ==
    [row |-> EmptyRow, currentVal |-> <<>>, inQuotes |-> FALSE, colIndex |-> 0]

\* the loop's variables after the first j characters of the line
RECURSIVE ScanLine(_, _, _)
ScanLine(line, j, headers) ==
    IF j = 0 THEN LineStart
    ELSE ScanChar(ScanLine(line, j - 1, headers), line[j], headers)

\* the row object built for one data line
ParseLine(line, headers) ==
    StoreColumn(ScanLine(line, Len(line), headers), headers)

RECURSIVE ParseLines(_, _, _)
ParseLines(lines, i, headers) ==
    IF i > Len(lines) THEN <<>>
    ELSE LET line == lines[i]
             row == ParseLine(line, headers)
         IN  IF Trim(line) = <<>> THEN ParseLines(lines, i + 1, headers)
             ELSE IF DOMAIN row # {}
                  THEN <<row>> \o ParseLines(lines, i + 1, headers)
                  ELSE ParseLines(lines, i + 1, headers)

parseCSV(text) ==
    LET lines == SplitLines(text)
    IN  IF Len(lines) = 0 THEN <<>>
        ELSE ParseLines(lines, 2, Headers(lines))

(***************************************************************************)
(* Numbers.  parseFloat and parseInt read decimal notation: white space,   *)
(* an optional sign, digits and (parseFloat) a fraction.  Exponents, hex   *)
(* prefixes and "Infinity" are outside the inputs modelled.                *)
(***************************************************************************)
Num(v) == [kind |-> "num", val |-> v, scale |-> 0]
NaN == [kind |-> "nan", val |-> 0, scale |-> 0]
Undefined == [kind |-> "undefined", val |-> 0, scale |-> 0]

RECURSIVE Pow10(_)
Pow10(n) == IF n = 0 THEN 1 ELSE 10 * Pow10(n - 1)

\* the canonical record of val / 10^scale
RECURSIVE Decimal(_, _)
Decimal(v, s) ==
    IF s > 0 /\ v % 10 = 0 THEN Decimal(v \div 10, s - 1)
    ELSE [kind |-> "num", val |-> v, scale |-> s]

DigitChars == Chars("0123456789")
IsDigit(c) == c \in Range(DigitChars)
DigitVal(c) == (CHOOSE i \in DOMAIN DigitChars : DigitChars[i] = c) - 1

RECURSIVE DigitPrefix(_)
DigitPrefix(s) ==
    IF s # <<>> /\ IsDigit(Head(s)) THEN <<Head(s)>> \o DigitPrefix(Tail(s))
    ELSE <<>>

RECURSIVE DigitsValue(_)
DigitsValue(ds) ==
    IF ds = <<>> THEN 0
    ELSE 10 * DigitsValue(SubSeq(ds, 1, Len(ds) - 1)) + DigitVal(ds[Len(ds)])

Drop(s, n) == SubSeq(s, n + 1, Len(s))

parseFloat(s) ==
    LET t == TrimStart(s)
        signed == t # <<>> /\ Head(t) \in {"-", "+"}
        sign == IF t # <<>> /\ Head(t) = "-" THEN -1 ELSE 1
        u == IF signed THEN Tail(t) ELSE t
        ip == DigitPrefix(u)
        rest == Drop(u, Len(ip))
        fp == IF rest # <<>> /\ Head(rest) = "." THEN DigitPrefix(Tail(rest))
              ELSE <<>>
    IN  IF ip = <<>> /\ fp = <<>> THEN NaN
        ELSE Decimal(sign * DigitsValue(ip \o fp), Len(fp))

parseInt(s) ==
    LET t == TrimStart(s)
        signed == t # <<>> /\ Head(t) \in {"-", "+"}
        sign == IF t # <<>> /\ Head(t) = "-" THEN -1 ELSE 1
        u == IF signed THEN Tail(t) ELSE t
        ip == DigitPrefix(u)
    IN  IF ip = <<>> THEN NaN ELSE Num(sign * DigitsValue(ip))

isNaN(n) == n.kind # "num"

\* JavaScript truthiness of a number: false for 0, NaN and undefined
Truthy(n) == n.kind = "num" /\ n.val # 0

\* n || 0
OrZero(n) == IF Truthy(n) THEN n ELSE Num(0)

Max(a, b) == IF a >= b THEN a ELSE b

\* a + b on two numbers of kind "num"
Add(a, b) ==
    LET s == Max(a.scale, b.scale)
    IN  Decimal(a.val * Pow10(s - a.scale) + b.val * Pow10(s - b.scale), s)

\* Math.round(total / count): the nearest integer, halves towards +infinity
RoundDiv(total, count) ==
    LET unit == Pow10(total.scale)
    IN  (2 * total.val + count * unit) \div (2 * count * unit)

\* total / count, kept as an exact fraction
Quotient(total, count) == [dividend |-> total, divisor |-> count]

(***************************************************************************)
(* Cleaning (reader.onload, the map and the filter)                        *)
(***************************************************************************)
H_engine_size == Chars("engine_size")
H_avg_price_brl == Chars("avg_price_brl")
H_year_model == Chars("year_model")
H_fuel == Chars("fuel")
H_brand == Chars("brand")
H_gear == Chars("gear")
H_month_of_reference == Chars("month_of_reference")
H_year_of_reference == Chars("year_of_reference")

\* row.key: Some(value), or Null when the row has no such property
Field(row, key) == IF key \in DOMAIN row THEN Some(row[key]) ELSE Null

\* truthiness of a string property: present and not ''
HasText(opt) == opt # Null /\ opt[1] # <<>>

\* s.replace(/"/g, '')
RECURSIVE RemoveQuotes(_)
RemoveQuotes(s) ==
    IF s = <<>> THEN <<>>
    ELSE IF Head(s) = "\"" THEN RemoveQuotes(Tail(s))
         ELSE <<Head(s)>> \o RemoveQuotes(Tail(s))

\* s.replace(',', '.'): the first comma only
RECURSIVE ReplaceFirstComma(_)
ReplaceFirstComma(s) ==
    IF s = <<>> THEN <<>>
    ELSE IF Head(s) = "," THEN <<".">> \o Tail(s)
         ELSE <<Head(s)>> \o ReplaceFirstComma(Tail(s))

EngineClean(row) ==
    LET engine == Field(row, H_engine_size)
    IN  IF engine = Null THEN Undefined
        ELSE parseFloat(ReplaceFirstComma(RemoveQuotes(engine[1])))

PriceClean(row) ==
    LET price == Field(row, H_avg_price_brl)
    IN  IF price = Null THEN Undefined ELSE parseFloat(price[1])

YearModelClean(row) ==
    LET ym == Field(row, H_year_model)
    IN  IF HasText(ym) THEN parseInt(ym[1]) ELSE Num(0)

Outros == Chars("Outros")

\* row.brand ? row.brand.split(' - ')[0] : 'Outros'
BrandClean(row) ==
    LET brand == Field(row, H_brand)
    IN  IF HasText(brand) THEN Split(brand[1], Chars(" - "))[1] ELSE Outros

CleanRow(row) ==
    [raw |-> row,
     engine_size_clean |-> EngineClean(row),
     avg_price_clean |-> PriceClean(row),
     year_model_clean |-> YearModelClean(row),
     fuel_clean |-> Field(row, H_fuel),
     brand_clean |-> BrandClean(row)]

\* !isNaN(row.avg_price_clean || 0)
PriceTest(price) == ~isNaN(OrZero(price))

\* row => !isNaN(row.avg_price_clean || 0) && row.brand_clean
KeepRow(c) == PriceTest(c.avg_price_clean) /\ c.brand_clean # <<>>

RECURSIVE CleanRows(_)
CleanRows(rawData) ==
    IF rawData = <<>> THEN <<>>
    ELSE LET c == CleanRow(Head(rawData))
         IN  IF KeepRow(c) THEN <<c>> \o CleanRows(Tail(rawData))
             ELSE CleanRows(Tail(rawData))

cleanedData(text) == CleanRows(parseCSV(text))

(***************************************************************************)
(* chartsData (useMemo).  A JavaScript object used as a dictionary is a    *)
(* sequence of entries in insertion order, which is the order of           *)
(* Object.entries and Object.values for the keys modelled (keys that are   *)
(* neither array indices nor names of Object.prototype members).           *)
(***************************************************************************)
\* the position of key in the dictionary, 0 when absent
IndexOf(entries, key) ==
    IF \E i \in DOMAIN entries : entries[i].name = key
    THEN CHOOSE i \in DOMAIN entries : entries[i].name = key
    ELSE 0

\* count[key] = (count[key] || 0) + 1
CountUp(entries, key) ==
    LET i == IndexOf(entries, key)
    IN  IF i = 0 THEN Append(entries, [name |-> key, value |-> 1])
        ELSE [entries EXCEPT ![i].value = @ + 1]

\* brandCount after the first n rows
RECURSIVE BrandCount(_, _)
BrandCount(rows, n) ==
    IF n = 0 THEN <<>>
    ELSE LET brand == rows[n].brand_clean
             before == BrandCount(rows, n - 1)
         IN  IF brand # <<>> THEN CountUp(before, brand) ELSE before

\* Array.prototype.sort is stable: an element goes behind its equals
InsertByValueDesc(sorted, e) ==
    LET k == Cardinality({i \in DOMAIN sorted : sorted[i].value >= e.value})
    IN  SubSeq(sorted, 1, k) \o <<e>> \o SubSeq(sorted, k + 1, Len(sorted))

\* the variant without the sort
KeepInsertionOrder(entries, n) == SubSeq(entries, 1, n)

\* entries.sort((a, b) => b.value - a.value), the first n entries placed
RECURSIVE SortByValueDesc(_, _)
SortByValueDesc(entries, n) ==
    IF n = 0 THEN <<>>
    ELSE InsertByValueDesc(SortByValueDesc(entries, n - 1), entries[n])

\* arr.slice(0, n)
Take(seq, n) == SubSeq(seq, 1, IF Len(seq) < n THEN Len(seq) ELSE n)

TopBrands == 10

BrandData(rows) ==
    LET counted == BrandCount(rows, Len(rows))
    IN  Take(SortByValueDesc(counted, Len(counted)), TopBrands)

Desconhecido == Chars("Desconhecido")

\* the variant without the default: String(d.gear)
GearKeyNoDefault(d) ==
    LET gear == Field(d.raw, H_gear)
    IN  IF gear = Null THEN Chars("undefined") ELSE gear[1]

\* d.gear || 'Desconhecido'
GearKey(d) ==
    LET gear == Field(d.raw, H_gear)
    IN  IF HasText(gear) THEN gear[1] ELSE Desconhecido

\* gearCount after the first n rows
RECURSIVE GearCount(_, _)
GearCount(rows, n) ==
    IF n = 0 THEN <<>> ELSE CountUp(GearCount(rows, n - 1), GearKey(rows[n]))

GearData(rows) == GearCount(rows, Len(rows))

(***************************************************************************)
(* Price evolution by quarter                                              *)
(***************************************************************************)
\* stands for the letter c with cedilla, lower and upper case
CCedilla == "c_cedilla"
UpperCCedilla == "C_CEDILLA"

LowerLetters == Chars("abcdefghijklmnopqrstuvwxyz") \o <<CCedilla>>
UpperLetters == Chars("ABCDEFGHIJKLMNOPQRSTUVWXYZ") \o <<UpperCCedilla>>

LowerChar(c) ==
    IF \E i \in DOMAIN UpperLetters : UpperLetters[i] = c
    THEN LowerLetters[CHOOSE i \in DOMAIN UpperLetters : UpperLetters[i] = c]
    ELSE c

\* s.toLowerCase()
ToLowerCase(s) == [i \in DOMAIN s |-> LowerChar(s[i])]

\* the variant that knows the English first-quarter names only
Q1NamesEnglish ==
    {Chars("january"), Chars("february"), Chars("march"), Chars("jan"),
     Chars("feb"), Chars("mar")}

Q1Names ==
    {Chars("january"), Chars("february"), Chars("march"), Chars("jan"),
     Chars("fev"), Chars("feb"), Chars("mar")}
Q2Names ==
    {Chars("april"), Chars("may"), Chars("june"), Chars("abr"),
     Chars("apr"), Chars("mai"), Chars("jun")}
Q3Names ==
    {Chars("july"), Chars("august"), Chars("september"), Chars("jul"),
     Chars("ago"), Chars("aug"), Chars("set"), Chars("sep")}
Q4Names ==
    {Chars("october"), Chars("november"), Chars("december"), Chars("out"),
     Chars("oct"), Chars("nov"), Chars("dez"), Chars("dec")}

\* the quarter chosen for a lower-cased month
QuarterOf(monthRef) ==
    IF \E m \in Q1Names : Includes(monthRef, m) THEN 1
    ELSE IF \E m \in Q2Names : Includes(monthRef, m) THEN 2
    ELSE IF \E m \in Q3Names : Includes(monthRef, m) THEN 3
    ELSE IF \E m \in Q4Names : Includes(monthRef, m) THEN 4
    ELSE 4

QuarterName(q) == <<"Q", DigitChars[q + 1]>>

MonthOf(d) == Field(d.raw, H_month_of_reference)
YearOf(d) == Field(d.raw, H_year_of_reference)

\* the guard of the loop body, on the price
HasPriceForEvolution(price) == Truthy(price)

\* !d.month_of_reference || !d.year_of_reference || !d.avg_price_clean
SkippedInEvolution(d) ==
    ~HasText(MonthOf(d)) \/ ~HasText(YearOf(d))
        \/ ~HasPriceForEvolution(d.avg_price_clean)

RowQuarter(d) == QuarterOf(ToLowerCase(MonthOf(d)[1]))

\* `${quarter}/${yearRef}`
EvolutionKey(d) == QuarterName(RowQuarter(d)) \o <<"/">> \o YearOf(d)[1]

\* `${yearRef}-${quarter}`
SortKey(d) == YearOf(d)[1] \o <<"-">> \o QuarterName(RowQuarter(d))

AddToBucket(entries, d) ==
    LET key == EvolutionKey(d)
        i == IndexOf(entries, key)
        created == IF i = 0
                   THEN Append(entries, [name |-> key, total |-> Num(0),
                                         count |-> 0, sortKey |-> SortKey(d),
                                         display |-> key])
                   ELSE entries
        j == IF i = 0 THEN Len(created) ELSE i
    IN  [created EXCEPT ![j].total = Add(@, d.avg_price_clean),
                        ![j].count = @ + 1]

\* priceEvolution after the first n rows
RECURSIVE PriceEvolution(_, _)
PriceEvolution(rows, n) ==
    IF n = 0 THEN <<>>
    ELSE LET before == PriceEvolution(rows, n - 1)
         IN  IF SkippedInEvolution(rows[n]) THEN before
             ELSE AddToBucket(before, rows[n])

\* the order of the characters under localeCompare (punctuation, digits,
\* letters), for the characters a sort key is made of here
Collation == Chars(" -/0123456789") \o LowerLetters
Rank(c) ==
    LET l == LowerChar(c)
    IN  IF \E i \in DOMAIN Collation : Collation[i] = l
        THEN CHOOSE i \in DOMAIN Collation : Collation[i] = l
        ELSE Len(Collation) + 1

\* a.localeCompare(b) < 0, = 0, > 0 as -1, 0, 1
LocaleCompare(a, b) ==
    LET diff == {i \in 1..Len(a) : i <= Len(b) /\ Rank(a[i]) # Rank(b[i])}
    IN  IF diff # {}
        THEN (IF Rank(a[Min(diff)]) < Rank(b[Min(diff)]) THEN -1 ELSE 1)
        ELSE IF Len(a) < Len(b) THEN -1
        ELSE IF Len(a) > Len(b) THEN 1
        ELSE 0

InsertBySortKey(sorted, e) ==
    LET k == Cardinality({i \in DOMAIN sorted :
                             LocaleCompare(sorted[i].sortKey, e.sortKey) <= 0})
    IN  SubSeq(sorted, 1, k) \o <<e>> \o SubSeq(sorted, k + 1, Len(sorted))

\* values.sort((a, b) => a.sortKey.localeCompare(b.sortKey))
RECURSIVE SortBySortKey(_, _)
SortBySortKey(entries, n) ==
    IF n = 0 THEN <<>>
    ELSE InsertBySortKey(SortBySortKey(entries, n - 1), entries[n])

\* the variant that truncates the mean
FloorMean(total, count) == total.val \div (count * Pow10(total.scale))

Mean(total, count) == RoundDiv(total, count)

EvolutionData(rows) ==
    LET buckets == PriceEvolution(rows, Len(rows))
        sorted == SortBySortKey(buckets, Len(buckets))
    IN  [i \in DOMAIN sorted |->
            [name |-> sorted[i].display,
             price |-> Mean(sorted[i].total, sorted[i].count)]]

(***************************************************************************)
(* Average price by brand and gear, KPIs                                   *)
(***************************************************************************)
Automatic == Chars("automatic")
Manual == Chars("manual")

TopGrouped == 6

\* the variant that groups every brand of brandData
AllChartBrands(brandData) == {brandData[i].name : i \in DOMAIN brandData}

\* brandData.slice(0,6).map(b => b.name)
top5Brands(brandData) ==
    LET top == Take(brandData, TopGrouped) IN {top[i].name : i \in DOMAIN top}

\* the guard of the two gear branches, on the price
HasPriceForGroup(price) == Truthy(price)

AddToGroup(entries, d) ==
    LET brand == d.brand_clean
        i == IndexOf(entries, brand)
        created == IF i = 0
                   THEN Append(entries, [name |-> brand,
                                         automatic |-> Num(0), manual |-> Num(0),
                                         countAuto |-> 0, countManual |-> 0])
                   ELSE entries
        j == IF i = 0 THEN Len(created) ELSE i
        gear == Field(d.raw, H_gear)
    IN  IF gear = Some(Automatic) /\ HasPriceForGroup(d.avg_price_clean)
        THEN [created EXCEPT ![j].automatic = Add(@, d.avg_price_clean),
                             ![j].countAuto = @ + 1]
        ELSE IF gear = Some(Manual) /\ HasPriceForGroup(d.avg_price_clean)
        THEN [created EXCEPT ![j].manual = Add(@, d.avg_price_clean),
                             ![j].countManual = @ + 1]
        ELSE created

\* groupedDataObj after the first n rows
RECURSIVE GroupedObj(_, _, _)
GroupedObj(rows, n, top) ==
    IF n = 0 THEN <<>>
    ELSE LET before == GroupedObj(rows, n - 1, top)
         IN  IF rows[n].brand_clean \in top THEN AddToGroup(before, rows[n])
             ELSE before

GroupedData(rows, brandData) ==
    LET obj == GroupedObj(rows, Len(rows), top5Brands(brandData))
    IN  [i \in DOMAIN obj |->
            [name |-> obj[i].name,
             Automatico |-> IF obj[i].countAuto # 0
                            THEN RoundDiv(obj[i].automatic, obj[i].countAuto)
                            ELSE 0,
             Manual |-> IF obj[i].countManual # 0
                        THEN RoundDiv(obj[i].manual, obj[i].countManual)
                        ELSE 0]]

\* data.reduce((acc, curr) => acc + (curr.avg_price_clean || 0), 0)
RECURSIVE SumPrices(_, _)
SumPrices(rows, n) ==
    IF n = 0 THEN Num(0)
    ELSE Add(SumPrices(rows, n - 1), OrZero(rows[n].avg_price_clean))

Kpis(rows, brandData) ==
    LET totalCars == Len(rows)
    IN  [totalCars |-> totalCars,
         avgPrice |-> IF totalCars > 0
                      THEN Quotient(SumPrices(rows, Len(rows)), totalCars)
                      ELSE Quotient(Num(0), 1),
         mostCommonBrand |-> IF Len(brandData) > 0 THEN brandData[1].name
                             ELSE <<"-">>]

chartsData(rows) ==
    IF Len(rows) = 0 THEN Null
    ELSE LET brandData == BrandData(rows)
         IN  Some([brandData |-> brandData,
                   gearData |-> GearData(rows),
                   evolutionData |-> EvolutionData(rows),
                   groupedData |-> GroupedData(rows, brandData),
                   kpis |-> Kpis(rows, brandData)])

(***************************************************************************)
(* The component: handleFileUpload, the FileReader callbacks and the       *)
(* "Remover arquivo" button.  pc names the handler that ran last.          *)
(***************************************************************************)
MaxPending == 2

FileNames == {"a.csv", "b.csv"}

CsvHeader ==
    Chars("brand,gear,avg_price_brl,month_of_reference,year_of_reference")

GoodText ==
    CsvHeader \o Chars("\nGM - Chevrolet,manual,100,January,2021")
              \o Chars("\nVW - VolksWagen,automatic,201,abril,2021\n")

BadPriceText ==
    CsvHeader \o Chars("\r\nFiat,manual,n/a,May,2022")
              \o Chars("\r\n,automatic,300,May,2022")

ShortRowText == CsvHeader \o Chars("\nFord,manual")

HeaderOnlyText == CsvHeader \o Chars("\n")

SampleTexts == {<<>>, GoodText, BadPriceText, ShortRowText, HeaderOnlyText}

ReadError == Chars("Erro ao ler o arquivo.")
\* (written here without its accents)
ProcessError ==
    Chars("Erro ao processar dados. Verifique se o arquivo e um CSV valido.")

NoReads == [f \in FileNames |-> 0]

RECURSIVE SumOver(_, _)
SumOver(f, S) ==
    IF S = {} THEN 0
    ELSE LET x == CHOOSE y \in S : TRUE IN f[x] + SumOver(f, S \ {x})

PendingCount == SumOver(pending, FileNames)

Idle ==
    /\ data = <<>>
    /\ loading = FALSE
    /\ fileName = Null
    /\ error = Null
    /\ pending = NoReads
    /\ charts = Null

Init ==
    /\ Idle
    /\ disk \in [FileNames -> SampleTexts]
    /\ pc = "init"
    /\ input = Null
    /\ output = Null

\* the file input is rendered only while data is empty
UploadShown == Len(data) = 0

\* the control bar and its button are rendered only with chartsData
DashboardShown == charts # Null

\* handleFileUpload, a file was chosen
SelectFile(f) ==
    /\ UploadShown
    /\ PendingCount < MaxPending
    /\ fileName' = Some(f)
    /\ loading' = TRUE
    /\ error' = Null
    /\ pending' = [pending EXCEPT ![f] = @ + 1]
    /\ pc' = "select"
    /\ UNCHANGED <<data, charts, disk, input, output>>

\* handleFileUpload, the dialog was cancelled: if (!file) return
SelectNothing ==
    /\ UploadShown
    /\ UNCHANGED vars

\* reader.onload, if (!text)
OnLoadEmpty(f) ==
    /\ pending[f] > 0
    /\ disk[f] = <<>>
    /\ pending' = [pending EXCEPT ![f] = @ - 1]
    /\ error' = Some(ReadError)
    /\ loading' = FALSE
    /\ pc' = "emptyText"
    /\ UNCHANGED <<data, charts, fileName, disk, input, output>>

\* the variant of reader.onload that forgets setLoading(false) after setData
OnLoadKeepsLoading(f) ==
    /\ pending[f] > 0
    /\ disk[f] # <<>>
    /\ pending' = [pending EXCEPT ![f] = @ - 1]
    /\ data' = cleanedData(disk[f])
    /\ charts' = chartsData(data')
    /\ pc' = "loaded"
    /\ UNCHANGED <<loading, fileName, error, disk, input, output>>

\* reader.onload, parse, clean, setData
OnLoad(f) ==
    /\ pending[f] > 0
    /\ disk[f] # <<>>
    /\ pending' = [pending EXCEPT ![f] = @ - 1]
    /\ data' = cleanedData(disk[f])
    /\ loading' = FALSE
    /\ charts' = chartsData(data')
    /\ pc' = "loaded"
    /\ UNCHANGED <<fileName, error, disk, input, output>>

\* reader.onload, an exception raised by parseCSV or by the cleaning (for
\* instance an allocation failure on a large file) reaches the catch block
OnLoadThrows(f) ==
    /\ pending[f] > 0
    /\ disk[f] # <<>>
    /\ pending' = [pending EXCEPT ![f] = @ - 1]
    /\ error' = Some(ProcessError)
    /\ loading' = FALSE
    /\ pc' = "threw"
    /\ UNCHANGED <<data, charts, fileName, disk, input, output>>

\* the variant of reader.onerror that forgets setLoading(false)
OnErrorKeepsLoading(f) ==
    /\ pending[f] > 0
    /\ pending' = [pending EXCEPT ![f] = @ - 1]
    /\ error' = Some(ReadError)
    /\ pc' = "readError"
    /\ UNCHANGED <<data, charts, loading, fileName, disk, input, output>>

\* reader.onerror
OnError(f) ==
    /\ pending[f] > 0
    /\ pending' = [pending EXCEPT ![f] = @ - 1]
    /\ error' = Some(ReadError)
    /\ loading' = FALSE
    /\ pc' = "readError"
    /\ UNCHANGED <<data, charts, fileName, disk, input, output>>

\* onClick={() => setData([])}
RemoveFile ==
    /\ DashboardShown
    /\ data' = <<>>
    /\ charts' = chartsData(data')
    /\ pc' = "removed"
    /\ UNCHANGED <<loading, fileName, error, pending, disk, input, output>>

Next ==
    \/ \E f \in FileNames : SelectFile(f)
    \/ SelectNothing
    \/ \E f \in FileNames : OnLoadEmpty(f)
    \/ \E f \in FileNames : OnLoad(f)
    \/ \E f \in FileNames : OnLoadThrows(f)
    \/ \E f \in FileNames : OnError(f)
    \/ RemoveFile

Spec == Init /\ [][Next]_vars

\* readAsText ends with exactly one of the events load and error
ReadCompletes(f) ==
    \/ OnError(f)
    \/ OnLoadEmpty(f)
    \/ OnLoadThrows(f)
    \/ OnLoad(f)

\* the FileReader delivers the event of every read it was given
SpecLive == Spec /\ \A f \in FileNames : WF_vars(ReadCompletes(f))

(***************************************************************************)
(* Claims about the component                                              *)
(***************************************************************************)
FailedRead == {"emptyText", "threw", "readError"}

\* C3: a read that ends in failure (onerror, empty text, or an exception in
\* the try block) leaves error non-null and loading false, and does not
\* touch data.
C3_FailedReadKeepsData ==
    [][pc' \in FailedRead =>
          (error' # Null /\ loading' = FALSE /\ data' = data)]_vars

\* a failed read ended while the dashboard was showing an earlier file
C3_Witness ==
    pc \in FailedRead /\ error # Null /\ loading = FALSE /\ Len(data) > 0

\* C8: every row kept in data has a numeric price and a non-empty
\* brand_clean, and a row without a brand value is kept as 'Outros'.
C8_KeptRowsAreValid ==
    \A i \in DOMAIN data :
        /\ data[i].avg_price_clean.kind = "num"
        /\ data[i].brand_clean # <<>>
        /\ (~HasText(Field(data[i].raw, H_brand))
               => data[i].brand_clean = Outros)

\* a read of f starts in this step / delivers its event in this step
ReadStarts(f) == pending'[f] > pending[f]
ReadEnds(f) == pending'[f] < pending[f]

\* C11: starting a read sets loading, clears error and sets fileName to the
\* file's name; every completion of a read (load with data, load with empty
\* text, load that throws, error) clears loading; a step that neither starts
\* nor ends a read (a cancelled dialog among them) leaves loading, error and
\* fileName alone; and, the FileReader delivering its events, every state
\* with loading = true is followed by one with loading = false.
C11_LoadingResolves ==
    /\ [][/\ \A f \in FileNames :
               ReadStarts(f) =>
                   (loading' = TRUE /\ error' = Null /\ fileName' = Some(f))
          /\ \A f \in FileNames : ReadEnds(f) => loading' = FALSE
          /\ (pending' = pending) =>
                   UNCHANGED <<loading, error, fileName>>]_vars
    /\ ((loading = TRUE) ~> (loading = FALSE))

\* the last of two reads started together has delivered its data
C11_Witness ==
    /\ pc = "loaded"
    /\ PendingCount = 0
    /\ loading = FALSE
    /\ fileName # Null
    /\ Len(data) > 0

\* C12: whenever the dashboard is shown, fileName is the name of the file the
\* displayed data was parsed from, in every interleaving of selections,
\* read events and removals: the read that puts rows into data is a read of
\* the file named by fileName, and fileName does not change while those
\* rows are displayed.
C12_FileNameMatchesData ==
    [][/\ \A f \in FileNames :
              (ReadEnds(f) /\ pc' = "loaded" /\ Len(data') > 0)
                  => fileName' = Some(f)
       /\ (Len(data) > 0 /\ data' = data /\ pc' # "loaded")
              => fileName' = fileName]_vars

\* C13: in every reachable state, a read that has not yet delivered its
\* load or error event means loading = true; loading = false only when no
\* read is in flight.
C13_LoadingReflectsPending == (PendingCount > 0) => (loading = TRUE)

\* what does hold of loading: it is true only while some read is in flight
C13_LoadingOnlyWhilePending == (loading = TRUE) => (PendingCount > 0)

(***************************************************************************)
(* parseCSV on its own: the input is a text made of a header line and one  *)
(* or two data lines; the text is kept with the lines it was made of.      *)
(***************************************************************************)
MaxLineLen == 4

SeqsUpTo(S, n) == UNION {[1..k -> S] : k \in 0..n}

\* header lines, each with the names it declares
CsvHeaderLines ==
    {[line |-> Chars("a"), names |-> <<Chars("a")>>],
     [line |-> Chars("a,b"), names |-> <<Chars("a"), Chars("b")>>],
     [line |-> Chars(" a , b"), names |-> <<Chars("a"), Chars("b")>>],
     [line |-> Chars("a,b,c"), names |-> <<Chars("a"), Chars("b"), Chars("c")>>],
     [line |-> Chars("a,a"), names |-> <<Chars("a"), Chars("a")>>]}

CsvAlphabet == {"x", ",", "\"", " "}

CsvLines == SeqsUpTo(CsvAlphabet, MaxLineLen)

CsvLastLines == {<<>>, Chars("  "), Chars("x,\"x,x\"")}

CsvInputs ==
    {[text |-> h.line \o eol \o l, names |-> h.names, lines |-> <<l>>] :
        h \in CsvHeaderLines, eol \in {Chars("\n"), Chars("\r\n")}, l \in CsvLines}
    \cup
    {[text |-> h.line \o Chars("\n") \o l \o Chars("\n") \o t,
      names |-> h.names, lines |-> <<l, t>>] :
        h \in CsvHeaderLines, l \in CsvLines, t \in CsvLastLines}

InitCSV ==
    /\ Idle
    /\ disk = [f \in FileNames |-> <<>>]
    /\ pc = "text"
    /\ input \in CsvInputs
    /\ output = Null

\* const rawData = parseCSV(text)
Parse ==
    /\ pc = "text"
    /\ output' = Some(parseCSV(input.text))
    /\ pc' = "parsed"
    /\ UNCHANGED <<data, loading, fileName, error, pending, charts, disk, input>>

SpecCSV == InitCSV /\ [][Parse]_vars

\* the positions of the commas of a line that lie outside quotes: those with
\* an even number of quote characters before them
OuterCommas(line) ==
    {j \in DOMAIN line :
        /\ line[j] = ","
        /\ Cardinality({i \in 1..(j - 1) : line[i] = "\""}) % 2 = 0}

\* the k-th column of a line: the text between the (k-1)-th and the k-th
\* comma outside quotes
Column(line, k) ==
    LET cuts == OuterCommas(line) \cup {0, Len(line) + 1}
        from == CHOOSE j \in cuts : Cardinality({i \in cuts : i < j}) = k - 1
        to == CHOOSE j \in cuts : Cardinality({i \in cuts : i < j}) = k
    IN  SubSeq(line, from + 1, to - 1)

ColumnCount(line) == Cardinality(OuterCommas(line)) + 1

\* the value of a column: quote characters removed, white space trimmed
ColumnValue(line, k) == Trim(RemoveQuotes(Column(line, k)))

NonBlank(line) == \E i \in DOMAIN line : line[i] \notin WhiteSpace

StoredColumns(line, names) ==
    1..(IF ColumnCount(line) < Len(names) THEN ColumnCount(line) ELSE Len(names))

\* C1 as stated: every non-blank data line yields a row in which, for every
\* column k that has a header, the k-th header name holds the value of the
\* k-th column, columns being separated by the commas outside quotes only.
C1_EveryColumnUnderItsHeader ==
    pc = "parsed" =>
        LET lines == SelectSeq(input.lines, NonBlank)
            rows == output[1]
        IN  /\ Len(rows) = Len(lines)
            /\ \A i \in DOMAIN lines : \A k \in StoredColumns(lines[i], input.names) :
                  /\ input.names[k] \in DOMAIN rows[i]
                  /\ rows[i][input.names[k]] = ColumnValue(lines[i], k)

\* C1 amended: the same, for every column k whose header name is not
\* repeated by a later column of the line; a repeated name holds the value
\* of the last column that carries it.
C1_LastColumnUnderItsHeader ==
    pc = "parsed" =>
        LET lines == SelectSeq(input.lines, NonBlank)
            rows == output[1]
        IN  /\ Len(rows) = Len(lines)
            /\ \A i \in DOMAIN lines :
                  LET cols == StoredColumns(lines[i], input.names)
                  IN  /\ DOMAIN rows[i] = {input.names[k] : k \in cols}
                      /\ \A k \in cols :
                            (\A j \in cols : j > k => input.names[j] # input.names[k])
                               => rows[i][input.names[k]] = ColumnValue(lines[i], k)

\* a parsed line whose second column holds a quoted comma
C1_Witness ==
    /\ pc = "parsed"
    /\ input.names = <<Chars("a"), Chars("b")>>
    /\ input.lines[1] = Chars(",\",\"")
    /\ output[1] = <<[k \in {Chars("a"), Chars("b")} |->
                        IF k = Chars("a") THEN <<>> ELSE <<",">>]>>

(***************************************************************************)
(* chartsData on its own: data holds rows the cleaning can produce, and    *)
(* the render that follows setData computes the charts.                    *)
(***************************************************************************)
MaxRows == 2
MaxBrands == 11

\* a row object with the given columns; a column that is Null is absent
MakeRow(brand, gear, price, month, year) ==
    LET all == [k \in {H_brand, H_gear, H_avg_price_brl,
                       H_month_of_reference, H_year_of_reference} |->
                   IF k = H_brand THEN brand
                   ELSE IF k = H_gear THEN gear
                   ELSE IF k = H_avg_price_brl THEN price
                   ELSE IF k = H_month_of_reference THEN month
                   ELSE year]
    IN  [k \in {h \in DOMAIN all : all[h] # Null} |-> all[k][1]]

RowsFrom(rawRows) ==
    UNION {[1..k -> rawRows] : k \in 0..MaxRows}

\* brands, gears and prices
BrandRows ==
    {MakeRow(Some(b), Some(g), Some(p), Some(Chars("January")), Some(Chars("2021"))) :
        b \in {Chars("GM - Chevrolet"), Chars("VW")},
        g \in {Automatic, Manual, <<>>},
        p \in {Chars("100"), Chars("201"), Chars("0"), Chars("n/a")}}
    \cup
    {MakeRow(Some(<<>>), Null, Some(Chars("99.7")), Null, Null),
     MakeRow(Some(Outros), Some(Desconhecido), Null, Null, Null)}

\* the i-th of many brands
WideRow(i) ==
    MakeRow(Some(<<UpperLetters[i]>>),
            Some(IF i % 2 = 0 THEN Automatic ELSE Manual),
            Some(Chars("10") \o <<DigitChars[(i % 10) + 1]>>),
            Some(Chars("May")), Some(Chars("2022")))

\* n brands with one row each, then a few more rows of some of them
WideInputsOf(n) ==
    {[i \in 1..n |-> WideRow(i)] \o tail :
        tail \in RowsFrom({WideRow(i) : i \in {1, 7, n}})}

WideInputs == UNION {WideInputsOf(n) : n \in 1..MaxBrands}

BrandInputs == RowsFrom(BrandRows) \cup WideInputs

InitCharts(inputs) ==
    /\ \E raw \in inputs : data = CleanRows(raw)
    /\ loading = FALSE
    /\ fileName = Some("a.csv")
    /\ error = Null
    /\ pending = NoReads
    /\ charts = Null
    /\ disk = [f \in FileNames |-> <<>>]
    /\ pc = "setData"
    /\ input = Null
    /\ output = Null

\* the render that follows setData(cleanedData)
Render ==
    /\ pc = "setData"
    /\ charts' = chartsData(data)
    /\ pc' = "rendered"
    /\ UNCHANGED <<data, loading, fileName, error, pending, disk, input, output>>

InitBrands == InitCharts(BrandInputs)

SpecBrands == InitBrands /\ [][Render]_vars

(***************************************************************************)
(* Claims about the brand, gear and grouped series and the KPIs            *)
(***************************************************************************)
Shown == charts[1]

\* the rows of data that satisfy P
RowsWith(P(_)) == {i \in DOMAIN data : P(data[i])}

NamesOf(series) == {series[i].name : i \in DOMAIN series}

DistinctNames(series) ==
    \A i, j \in DOMAIN series : i # j => series[i].name # series[j].name

RowsOfBrand(b) == {i \in DOMAIN data : data[i].brand_clean = b}

\* C4: brandData has at most 10 entries with distinct names, each with the
\* number of rows of its brand, in non-increasing order of value, and no
\* brand left out has strictly more rows than a brand that is in it.
C4_BrandDistribution ==
    charts # Null =>
        LET bd == Shown.brandData
            brands == {data[i].brand_clean : i \in DOMAIN data}
        IN  /\ Len(bd) <= 10
            /\ DistinctNames(bd)
            /\ \A i \in DOMAIN bd :
                  bd[i].value = Cardinality(RowsOfBrand(bd[i].name))
            /\ \A i, j \in DOMAIN bd : i < j => bd[i].value >= bd[j].value
            /\ \A out \in brands \ NamesOf(bd) : \A in \in NamesOf(bd) :
                  Cardinality(RowsOfBrand(out)) <= Cardinality(RowsOfBrand(in))

\* more than ten brands: ten are shown, one with more rows than another
C4_Witness ==
    /\ charts # Null
    /\ Cardinality({data[i].brand_clean : i \in DOMAIN data}) > 10
    /\ Len(Shown.brandData) = 10
    /\ Shown.brandData[1].value > Shown.brandData[10].value

\* the sum of the prices of a set of rows, in units of 10^-scale
RECURSIVE ScaledSum(_, _)
ScaledSum(S, scale) ==
    IF S = {} THEN 0
    ELSE LET i == CHOOSE x \in S : TRUE
             p == data[i].avg_price_clean
         IN  p.val * Pow10(scale - p.scale) + ScaledSum(S \ {i}, scale)

MaxScale(S) ==
    IF S = {} THEN 0
    ELSE LET i == CHOOSE x \in S : \A y \in S :
                     data[x].avg_price_clean.scale >= data[y].avg_price_clean.scale
         IN  data[i].avg_price_clean.scale

Abs(x) == IF x < 0 THEN -x ELSE x

\* n is an integer nearest to the arithmetic mean of the prices of the rows S
IsRoundedMean(n, S) ==
    LET unit == Pow10(MaxScale(S))
        count == Cardinality(S)
    IN  2 * Abs(ScaledSum(S, MaxScale(S)) - n * count * unit) <= count * unit

Numeric(d) == d.avg_price_clean.kind = "num"
NonZero(d) == d.avg_price_clean.kind = "num" /\ d.avg_price_clean.val # 0

HasGear(d, g) == Field(d.raw, H_gear) = Some(g)

\* the first six names of brandData
TopSix == LET bd == Shown.brandData
          IN  {bd[i].name : i \in {j \in DOMAIN bd : j <= 6}}

\* groupedData has one entry per brand of TopSix and no other; each average
\* is the rounded mean over the brand's rows of the gear that Priced
\* accepts, and 0 when there is none
GroupedAverages(Priced(_)) ==
    LET gd == Shown.groupedData
    IN  /\ DistinctNames(gd)
        /\ NamesOf(gd) = TopSix
        /\ \A i \in DOMAIN gd :
              LET auto == {r \in RowsOfBrand(gd[i].name) :
                              HasGear(data[r], Automatic) /\ Priced(data[r])}
                  manual == {r \in RowsOfBrand(gd[i].name) :
                                HasGear(data[r], Manual) /\ Priced(data[r])}
              IN  /\ IF auto = {} THEN gd[i].Automatico = 0
                      ELSE IsRoundedMean(gd[i].Automatico, auto)
                  /\ IF manual = {} THEN gd[i].Manual = 0
                      ELSE IsRoundedMean(gd[i].Manual, manual)

\* C6 as stated: groupedData covers exactly the first six brands of
\* brandData; Automatico and Manual are the rounded means of the price over
\* the brand's rows of that gear that have a price, 0 when there is none.
C6_GroupedMeansOverPricedRows == charts # Null => GroupedAverages(Numeric)

\* C6 amended: the same, a row having a price when its price is a number
\* other than 0.
C6_GroupedMeansOverNonZeroRows == charts # Null => GroupedAverages(NonZero)

\* more than six brands, six of them grouped, with averages of both gears
C6_Witness ==
    /\ charts # Null
    /\ Len(Shown.brandData) > 6
    /\ Len(Shown.groupedData) = 6
    /\ \E i \in DOMAIN Shown.groupedData : Shown.groupedData[i].Automatico > 0
    /\ \E i \in DOMAIN Shown.groupedData : Shown.groupedData[i].Manual > 0

\* a brand whose automatic rows include a zero price and a positive one
C6_ZeroPriceWitness ==
    /\ charts # Null
    /\ \E i \in DOMAIN Shown.groupedData :
          /\ Shown.groupedData[i].Automatico > 0
          /\ \E r \in RowsOfBrand(Shown.groupedData[i].name) :
                /\ HasGear(data[r], Automatic)
                /\ Numeric(data[r]) /\ ~NonZero(data[r])

\* C7: avgPrice is the mean price of the records counted in totalCars:
\* every row of data has a price, and avgPrice is the sum of these prices
\* divided by the number of rows.
C7_AvgPriceIsMeanOfAllRows ==
    charts # Null =>
        LET k == Shown.kpis
            all == DOMAIN data
        IN  /\ k.totalCars = Len(data)
            /\ \A i \in all : Numeric(data[i])
            /\ k.avgPrice.divisor = k.totalCars
            /\ k.avgPrice.dividend.val * Pow10(MaxScale(all))
                  = ScaledSum(all, MaxScale(all)) * Pow10(k.avgPrice.dividend.scale)

\* what the code computes: the sum of the prices that are numbers, divided
\* by the number of all rows
C7_AvgPriceCountsUnpricedRows ==
    charts # Null =>
        LET k == Shown.kpis
            priced == RowsWith(Numeric)
        IN  /\ k.totalCars = Len(data)
            /\ k.avgPrice.divisor = k.totalCars
            /\ k.avgPrice.dividend.val * Pow10(MaxScale(priced))
                  = ScaledSum(priced, MaxScale(priced))
                       * Pow10(k.avgPrice.dividend.scale)

GearName(d) ==
    LET gear == Field(d.raw, H_gear)
    IN  IF gear # Null /\ gear[1] # <<>> THEN gear[1] ELSE Desconhecido

RECURSIVE SumValues(_, _)
SumValues(series, n) ==
    IF n = 0 THEN 0 ELSE series[n].value + SumValues(series, n - 1)

\* C10: gearData has distinct names, every row is counted in exactly one
\* entry (a row without gear under 'Desconhecido'), and the values add up to
\* totalCars, the number of rows of data.
C10_GearPartition ==
    charts # Null =>
        LET gd == Shown.gearData
        IN  /\ DistinctNames(gd)
            /\ \A r \in DOMAIN data :
                  Cardinality({i \in DOMAIN gd : gd[i].name = GearName(data[r])}) = 1
            /\ \A i \in DOMAIN gd :
                  gd[i].value =
                     Cardinality({r \in DOMAIN data : GearName(data[r]) = gd[i].name})
            /\ SumValues(gd, Len(gd)) = Shown.kpis.totalCars
            /\ Shown.kpis.totalCars = Len(data)

\* rows without gear counted under 'Desconhecido' beside another gear
C10_Witness ==
    /\ charts # Null
    /\ Len(Shown.gearData) >= 2
    /\ \E r \in DOMAIN data : ~HasText(Field(data[r].raw, H_gear))
    /\ \E i \in DOMAIN Shown.gearData :
          Shown.gearData[i].name = Desconhecido /\ Shown.gearData[i].value >= 1

(***************************************************************************)
(* The price evolution on its own                                          *)
(***************************************************************************)
UpperChar(c) ==
    IF \E i \in DOMAIN LowerLetters : LowerLetters[i] = c
    THEN UpperLetters[CHOOSE i \in DOMAIN LowerLetters : LowerLetters[i] = c]
    ELSE c

AllCaps(s) == [i \in DOMAIN s |-> UpperChar(s[i])]
Capitalised(s) == [i \in DOMAIN s |-> IF i = 1 THEN UpperChar(s[i]) ELSE s[i]]

\* the month names of the calendar, English and Portuguese, full and
\* abbreviated, each with the quarter that contains it
MonthsOfQuarter(q, names) == {[name |-> n, quarter |-> q] : n \in names}

MonthCatalog ==
    MonthsOfQuarter(1, {Chars("january"), Chars("february"), Chars("march"),
                        Chars("jan"), Chars("feb"), Chars("mar"),
                        Chars("janeiro"), Chars("fevereiro"),
                        Chars("mar") \o <<CCedilla>> \o Chars("o"),
                        Chars("fev")})
    \cup
    MonthsOfQuarter(2, {Chars("april"), Chars("may"), Chars("june"),
                        Chars("apr"), Chars("jun"),
                        Chars("abril"), Chars("maio"), Chars("junho"),
                        Chars("abr"), Chars("mai")})
    \cup
    MonthsOfQuarter(3, {Chars("july"), Chars("august"), Chars("september"),
                        Chars("jul"), Chars("aug"), Chars("sep"),
                        Chars("julho"), Chars("agosto"), Chars("setembro"),
                        Chars("ago"), Chars("set")})
    \cup
    MonthsOfQuarter(4, {Chars("october"), Chars("november"), Chars("december"),
                        Chars("oct"), Chars("nov"), Chars("dec"),
                        Chars("outubro"), Chars("novembro"), Chars("dezembro"),
                        Chars("out"), Chars("dez")})

Spellings(name) == {name, AllCaps(name), Capitalised(name)}

\* every spelling of every month of the catalog, with the month's quarter
SpelledMonths ==
    UNION {{[spelling |-> sp, quarter |-> m.quarter] : sp \in Spellings(m.name)} :
              m \in MonthCatalog}

EvolutionRow(month, year, price) ==
    MakeRow(Some(Chars("GM")), Some(Manual), price, month, year)

\* every spelling of every month, alone and beside a row of another month
MonthInputs ==
    UNION {{<<EvolutionRow(Some(sp), Some(Chars("2021")), Some(Chars("100")))>> \o tail :
               tail \in {<<>>,
                         <<EvolutionRow(Some(Chars("Jan")), Some(Chars("2021")),
                                        Some(Chars("201")))>>,
                         <<EvolutionRow(Some(Chars("OUT")), Some(Chars("2021")),
                                        Some(Chars("201")))>>}} :
           sp \in {m.spelling : m \in SpelledMonths}}

\* months, years and prices
EvolutionRows ==
    {EvolutionRow(Some(m), Some(y), Some(p)) :
        m \in {Chars("jan"), Chars("Julho")},
        y \in {Chars("2021"), Chars("2022"), Chars("999")},
        p \in {Chars("100"), Chars("201"), Chars("0")}}
    \cup
    {EvolutionRow(Some(Chars("xyz")), Some(Chars("2021")), Some(Chars("99.7"))),
     EvolutionRow(Null, Some(Chars("2021")), Some(Chars("100"))),
     EvolutionRow(Some(Chars("jan")), Some(<<>>), Some(Chars("100"))),
     EvolutionRow(Some(Chars("jan")), Some(Chars("2021")), Some(Chars("n/a")))}

QuarterInputs == MonthInputs \cup RowsFrom(EvolutionRows)

InitQuarters == InitCharts(QuarterInputs)

SpecQuarters == InitQuarters /\ [][Render]_vars

(***************************************************************************)
(* Claims about the price evolution                                        *)
(***************************************************************************)
\* the row has a month and a year, and a price that Priced accepts
InEvolution(d, Priced(_)) ==
    HasText(MonthOf(d)) /\ HasText(YearOf(d)) /\ Priced(d)

\* the calendar quarters of the row's month_of_reference: one quarter for a
\* spelling of a month of the catalog, none for any other text
CalendarQuarters(d) ==
    {m.quarter : m \in {x \in SpelledMonths : x.spelling = MonthOf(d)[1]}}

\* 'Qn/<year>' for the quarter n of the calendar
CalendarKey(q, d) == <<"Q", DigitChars[q + 1]>> \o <<"/">> \o YearOf(d)[1]

Buckets == PriceEvolution(data, Len(data))

RECURSIVE SumCounts(_, _)
SumCounts(buckets, n) ==
    IF n = 0 THEN 0 ELSE buckets[n].count + SumCounts(buckets, n - 1)

\* every row with a month of the catalog, a year and a price is counted in
\* the bucket of the month's calendar quarter and of its year, which is a
\* point of evolutionData, and no row is counted twice
QuarterBinning(Priced(_)) ==
    LET buckets == Buckets
        rows == {r \in DOMAIN data : InEvolution(data[r], Priced)}
        keys == [r \in rows |->
                    {CalendarKey(q, data[r]) : q \in CalendarQuarters(data[r])}]
    IN  /\ \A r \in rows : \A key \in keys[r] :
              /\ key \in NamesOf(Shown.evolutionData)
              /\ key \in NamesOf(buckets)
              /\ buckets[IndexOf(buckets, key)].count
                    >= Cardinality({x \in rows : key \in keys[x]})
        /\ SumCounts(buckets, Len(buckets)) = Cardinality(rows)

\* C2 as stated: a row with month, year and price is counted in the bucket
\* 'Qn/<year>' of the calendar quarter of its month, for every English and
\* Portuguese month name, full or abbreviated, in lower case, upper case or
\* capitalised, and in no other bucket.
C2_QuarterOfEveryPricedRow == charts # Null => QuarterBinning(Numeric)

\* C2 amended: the same for the rows whose price is a number other than 0.
C2_QuarterOfEveryNonZeroPricedRow == charts # Null => QuarterBinning(NonZero)

\* the Portuguese name of March in capitals, binned into Q1
C2_Witness ==
    /\ charts # Null
    /\ Len(data) = 1
    /\ MonthOf(data[1]) = Some(Chars("MAR") \o <<UpperCCedilla>> \o Chars("O"))
    /\ Shown.evolutionData = <<[name |-> Chars("Q1/2021"), price |-> 100]>>

\* a December row and a January row, binned into Q4 and Q1
C2_SecondWitness ==
    /\ charts # Null
    /\ Len(data) = 2
    /\ MonthOf(data[1]) = Some(Chars("Dez"))
    /\ NamesOf(Shown.evolutionData) = {Chars("Q1/2021"), Chars("Q4/2021")}

\* evolutionData has exactly one point per quarter/year pair of the rows
\* with month, year and price, and its price is the rounded mean of the
\* prices of exactly these rows of the pair
QuarterlyMeans(Priced(_)) ==
    LET evo == Shown.evolutionData
        rows == {r \in DOMAIN data : InEvolution(data[r], Priced)}
    IN  /\ DistinctNames(evo)
        /\ NamesOf(evo) = {EvolutionKey(data[r]) : r \in rows}
        /\ \A i \in DOMAIN evo :
              IsRoundedMean(evo[i].price,
                            {r \in rows : EvolutionKey(data[r]) = evo[i].name})

\* C5 as stated: one point per quarter and year that has a row with month,
\* year and price; its price is the rounded mean over the rows of that
\* quarter and year that have a price.
C5_MeanOverPricedRows == charts # Null => QuarterlyMeans(Numeric)

\* C5 amended: the same, a row having a price when its price is a number
\* other than 0.
C5_MeanOverNonZeroPricedRows == charts # Null => QuarterlyMeans(NonZero)

\* a point that is the mean of two different prices, rounded up from 150.5
C5_Witness ==
    /\ charts # Null
    /\ \E i \in DOMAIN Shown.evolutionData :
          /\ Shown.evolutionData[i].price = 151
          /\ Cardinality({r \in DOMAIN data :
                             /\ InEvolution(data[r], NonZero)
                             /\ EvolutionKey(data[r]) = Shown.evolutionData[i].name})
                = 2

\* the year and the quarter a point 'Qn/<year>' stands for
PointYear(point) == DigitsValue(Drop(point.name, 3))
PointQuarter(point) == DigitVal(point.name[2])

\* C9: of any two points of evolutionData, the one of the earlier year
\* comes first, and within a year the points come in the order Q1..Q4.
C9_Chronological ==
    charts # Null =>
        LET evo == Shown.evolutionData
        IN  \A i, j \in DOMAIN evo :
               i < j =>
                  \/ PointYear(evo[i]) < PointYear(evo[j])
                  \/ /\ PointYear(evo[i]) = PointYear(evo[j])
                     /\ PointQuarter(evo[i]) < PointQuarter(evo[j])

\* what holds of the code: the order is chronological among the points
\* whose years are written with the same number of digits
C9_ChronologicalAmongEqualLengthYears ==
    charts # Null =>
        LET evo == Shown.evolutionData
        IN  \A i, j \in DOMAIN evo :
               (i < j /\ Len(evo[i].name) = Len(evo[j].name)) =>
                  \/ PointYear(evo[i]) < PointYear(evo[j])
                  \/ /\ PointYear(evo[i]) = PointYear(evo[j])
                     /\ PointQuarter(evo[i]) < PointQuarter(evo[j])

====
